---- MODULE Spec2Model ----
(***************************************************************************)
(* photo_duplicate_manager.py: the fingerprint pipeline of compare_images  *)
(* (parallel hashing through ProcessPoolExecutor.map, exact-match          *)
(* grouping, selection of the original by byte size and relocation of the  *)
(* other members with collision-safe names).                               *)
(*                                                                         *)
(* File names are sequences of one-character strings, a path is the pair   *)
(* <<directory, name>>, the filesystem maps each existing path to the      *)
(* identity of the file stored there.                                      *)
(***************************************************************************)
EXTENDS Integers, Sequences, FiniteSets, TLC

\* ------------------------------------------------------------------ bounds
MaxFiles == 4
MaxWorkers == 2
MaxElapsed == 2
MaxArgs == 4
MaxWriters == 2

\* the default width of the progress bar, in characters
Width == 40

\* ------------------------------------------------------------- constants
\* Python's None where a hash or a path is expected (both are sequences here)
None == <<>>
\* move_path when the command line has no -m
NoMovePath == "None"

\* ------------------------------------------------------------ text helpers
DigitChars == <<"0", "1", "2", "3", "4", "5", "6", "7", "8", "9">>
HexChars == DigitChars \o <<"a", "b", "c", "d", "e", "f">>

\* f"{i}": the decimal digits of a natural number
RECURSIVE IntToStr(_)
IntToStr(i) ==
    IF i < 10 THEN <<DigitChars[i + 1]>>
    ELSE IntToStr(i \div 10) \o <<DigitChars[(i % 10) + 1]>>

\* str.rfind('.') + 1, 0 when there is no dot
RECURSIVE RFindDot(_, _)
RFindDot(name, k) ==
    IF k = 0 THEN 0
    ELSE IF name[k] = "." THEN k
    ELSE RFindDot(name, k - 1)

\* os.path.splitext: the extension starts at the last dot, leading dots ignored
splitext(name) ==
    LET dotIndex == RFindDot(name, Len(name)) IN
    IF dotIndex > 0 /\ \E k \in 1..(dotIndex - 1) : name[k] # "."
    THEN <<SubSeq(name, 1, dotIndex - 1), SubSeq(name, dotIndex, Len(name))>>
    ELSE <<name, <<>> >>

\* os.path.join(directory, name) and os.path.basename(path)
join(dir, name) == <<dir, name>>
basename(path) == path[2]

\* ------------------------------------------------------------- the inputs
NameX == <<"x", ".", "j", "p", "g">>
NameX1 == <<"x", "_", "1", ".", "j", "p", "g">>
NameY == <<"y", ".", "j", "p", "g">>

\* the image files a folder may hold, in directory-walk order
Universe ==
    << join("a", NameX), join("a", NameX1), join("b", NameX), join("b", NameY),
       join("c", NameX) >>

\* os.path.join(move_path, "duplicates"), whatever the destination root is
DuplicatesDir == "dest/duplicates"

\* what the quarantine directory may hold before the run: name -> file identity
QuarantineBefore ==
    { {}, {join(DuplicatesDir, NameX), join(DuplicatesDir, NameX1)} }

\* the kinds of file content: perceptual hash (a bit vector) and byte size
Contents == {"big", "small", "other", "bad"}

Decodes(c) == c # "bad"

phash(c) ==
    CASE c = "big" -> <<0, 1>>
      [] c = "small" -> <<0, 1>>
      [] c = "other" -> <<1, 1>>

FileSize(c) ==
    CASE c = "big" -> 2
      [] c = "small" -> 1
      [] c = "other" -> 1
      [] c = "bad" -> 1

\* ---------------------------------------------------------------- state
VARIABLES
    images,        \* the discovered paths, a sequence without repetition
    content,       \* the content kind of each discovered file
    workers,       \* the pool's worker count
    move_path,     \* None (report only) or the destination root
    fs,            \* the filesystem: existing path -> identity of the file there
    taken,         \* how many tasks the workers have picked up, in input order
    running,       \* the input indices being hashed right now
    futures,       \* per input index: Pending, Raise or the result <<path, ph>>
    completed,     \* the consumer's counter i of compare_images
    hash_dict,     \* the ordered result map: a sequence of <<path, ph>>
    delivered,     \* history: the paths of the results the consumer received
    hashFailed,    \* history: the paths whose open/decode/hash failed
    exact_groups,  \* the groups, a sequence of sequences of paths
    pc,            \* "hash", "group", "move", "report", "done", "aborted"
    gi,            \* the index of the group being relocated
    mi,            \* the index of the member the inner loop is at
    original,      \* the original selected for group gi, None before selection
    originals,     \* history: the original selected for each group so far
    moveLog,       \* history: <<source, destination>> of each move performed
    abortCause,    \* which uncaught exception ended the run, "none" if none
    clock,         \* time.time() - start_time, in ticks
    renders,       \* history: what each call of print_progress_bar displayed
    argv,          \* sys.argv
    exit_status,   \* -1 while running, then the status the process exits with
    usage_shown,   \* the usage text has been printed
    writers        \* concurrent calls of move_duplicate, each at its own line

vars ==
    << images, content, workers, move_path, fs, taken, running, futures,
       completed, hash_dict, delivered, hashFailed, exact_groups, pc, gi, mi,
       original, originals, moveLog, abortCause, clock, renders, argv,
       exit_status, usage_shown, writers >>

\* ---------------------------------------------------------- sequence tools
Range(s) == { s[k] : k \in 1..Len(s) }

\* a function without the key k
Without(f, k) == [x \in (DOMAIN f) \ {k} |-> f[x]]

\* --------------------------------------------------------- fingerprinting
\* Image.open + imagehash.phash on the file at path: the hash, or an exception
OpenAndHash(path, files, kinds) ==
    IF path \notin DOMAIN files THEN [raised |-> TRUE, ph |-> None]
    ELSE IF ~Decodes(kinds[files[path]]) THEN [raised |-> TRUE, ph |-> None]
    ELSE [raised |-> FALSE, ph |-> phash(kinds[files[path]])]

\* a variant without the try/except: the exception leaves the worker
safe_compute_hash_NoCatch(path, files, kinds) ==
    LET r == OpenAndHash(path, files, kinds) IN
    [state |-> IF r.raised THEN "raised" ELSE "done", path |-> path, ph |-> r.ph]

\* a future no worker has resolved yet
PendingFuture == [state |-> "pending", path |-> None, ph |-> None]

\* a variant in which a failing computation never resolves its future
safe_compute_hash_NeverResolves(path, files, kinds) ==
    IF OpenAndHash(path, files, kinds).raised
    THEN PendingFuture
    ELSE [state |-> "done", path |-> path, ph |-> OpenAndHash(path, files, kinds).ph]

\* safe_compute_hash as the future the pool resolves: (path, hash) or (path, None)
safe_compute_hash(path, files, kinds) ==
    LET r == OpenAndHash(path, files, kinds) IN
    [state |-> "done", path |-> path, ph |-> IF r.raised THEN None ELSE r.ph]

\* hash_dict[key] = value on an insertion-ordered dict
RECURSIVE DictSet(_, _, _)
DictSet(d, key, value) ==
    IF d = <<>> THEN << <<key, value>> >>
    ELSE IF Head(d)[1] = key THEN << <<key, value>> >> \o Tail(d)
    ELSE <<Head(d)>> \o DictSet(Tail(d), key, value)

DictKeys(d) == { d[k][1] : k \in 1..Len(d) }

DictGet(d, key) == d[CHOOSE k \in 1..Len(d) : d[k][1] = key][2]

\* ----------------------------------------------------------------- grouping
\* int(bit_string, 2)
RECURSIVE BitsToInt(_)
BitsToInt(bits) ==
    IF bits = <<>> THEN 0
    ELSE 2 * BitsToInt(SubSeq(bits, 1, Len(bits) - 1)) + bits[Len(bits)]

\* '{:0>{width}x}': hexadecimal, zero-padded on the left to width characters
RECURSIVE ToHex(_, _)
ToHex(n, width) ==
    IF width <= 1 /\ n < 16 THEN <<HexChars[n + 1]>>
    ELSE ToHex(n \div 16, width - 1) \o <<HexChars[(n % 16) + 1]>>

\* str(ph): the hash's bits as hexadecimal text, ceil(len / 4) characters wide
HashStr(ph) == ToHex(BitsToInt(ph), (Len(ph) + 3) \div 4)

\* a variant that only extends the most recent group (grouping of runs of
\* equal neighbours, as itertools.groupby does on unsorted input)
SetDefaultAppend_LastOnly(mapping, key, filepath) ==
    IF mapping # <<>> /\ mapping[Len(mapping)][1] = key
    THEN SubSeq(mapping, 1, Len(mapping) - 1)
         \o << <<key, Append(mapping[Len(mapping)][2], filepath)>> >>
    ELSE Append(mapping, <<key, <<filepath>> >>)

\* mapping.setdefault(key, []).append(filepath) on an insertion-ordered dict
RECURSIVE SetDefaultAppend(_, _, _)
SetDefaultAppend(mapping, key, filepath) ==
    IF mapping = <<>> THEN << <<key, <<filepath>> >> >>
    ELSE IF Head(mapping)[1] = key
         THEN << <<key, Append(Head(mapping)[2], filepath)>> >> \o Tail(mapping)
    ELSE <<Head(mapping)>> \o SetDefaultAppend(Tail(mapping), key, filepath)

\* a variant without the `if ph is None: continue` test: None is keyed by
\* its text like any other value
RECURSIVE BuildMapping_NoSkip(_, _)
BuildMapping_NoSkip(items, mapping) ==
    IF items = <<>> THEN mapping
    ELSE LET filepath == Head(items)[1]
             ph == Head(items)[2]
             key == IF ph = None THEN <<"N", "o", "n", "e">> ELSE HashStr(ph)
         IN BuildMapping_NoSkip(Tail(items), SetDefaultAppend(mapping, key, filepath))

\* the loop of group_exact_duplicates over hash_dict.items()
RECURSIVE BuildMapping(_, _)
BuildMapping(items, mapping) ==
    IF items = <<>> THEN mapping
    ELSE LET filepath == Head(items)[1]
             ph == Head(items)[2]
         IN IF ph = None THEN BuildMapping(Tail(items), mapping)
            ELSE BuildMapping(Tail(items),
                              SetDefaultAppend(mapping, HashStr(ph), filepath))

\* a variant with the test len(group) > 0
RECURSIVE LargeGroups_KeepSingles(_)
LargeGroups_KeepSingles(mapping) ==
    IF mapping = <<>> THEN <<>>
    ELSE (IF Len(Head(mapping)[2]) > 0 THEN <<Head(mapping)[2]>> ELSE <<>>)
         \o LargeGroups_KeepSingles(Tail(mapping))

\* [group for group in mapping.values() if len(group) > 1]
RECURSIVE LargeGroups(_)
LargeGroups(mapping) ==
    IF mapping = <<>> THEN <<>>
    ELSE (IF Len(Head(mapping)[2]) > 1 THEN <<Head(mapping)[2]>> ELSE <<>>)
         \o LargeGroups(Tail(mapping))

group_exact_duplicates(d) == LargeGroups(BuildMapping(d, <<>>))

\* --------------------------------------------------------------- relocation
\* os.path.getsize of an existing path
getsize(path, files, kinds) == FileSize(kinds[files[path]])

\* a variant of max that lets a later equal element replace the best so far
RECURSIVE MaxLast(_, _, _, _, _)
MaxLast(group, k, best, files, kinds) ==
    IF k > Len(group) THEN best
    ELSE IF getsize(group[k], files, kinds) >= getsize(best, files, kinds)
         THEN MaxLast(group, k + 1, group[k], files, kinds)
    ELSE MaxLast(group, k + 1, best, files, kinds)

\* max(iterable, key=...): the first element whose key is the greatest
RECURSIVE MaxFirst(_, _, _, _, _)
MaxFirst(group, k, best, files, kinds) ==
    IF k > Len(group) THEN best
    ELSE IF getsize(group[k], files, kinds) > getsize(best, files, kinds)
         THEN MaxFirst(group, k + 1, group[k], files, kinds)
    ELSE MaxFirst(group, k + 1, best, files, kinds)

select_original_Last(group, files, kinds) == MaxLast(group, 2, group[1], files, kinds)

\* original = max(group, key=lambda p: os.path.getsize(p))
select_original(group, files, kinds) == MaxFirst(group, 2, group[1], files, kinds)

\* the while loop of move_duplicate: the first unused name among
\* name, base_1.ext, base_2.ext, ...
RECURSIVE FreeDest(_, _, _, _, _, _)
FreeDest(dest, i, base, ext, dir, files) ==
    IF dest \in DOMAIN files
    THEN FreeDest(join(dir, base \o <<"_">> \o IntToStr(i) \o ext), i + 1,
                  base, ext, dir, files)
    ELSE dest

\* a variant that tests the plain name once and never the suffixed one
destination_CheckOnce(src_file, dir, files) ==
    LET name == basename(src_file)
        se == splitext(name)
    IN IF join(dir, name) \in DOMAIN files
       THEN join(dir, se[1] \o <<"_">> \o IntToStr(1) \o se[2])
       ELSE join(dir, name)

\* lines 73-79 of move_duplicate: the destination the file is moved to
destination(src_file, dir, files) ==
    LET name == basename(src_file)
        se == splitext(name)
    IN FreeDest(join(dir, name), 1, se[1], se[2], dir, files)

\* a variant of the test that compares file names instead of paths
is_duplicate_ByName(img, orig) == basename(img) # basename(orig)

\* `if img != original`: the member is not the selected original
is_duplicate(img, orig) == img # orig

\* shutil.move(src, dest) of an existing src: a rename, which replaces dest
shutil_move(src, dest, files) == (dest :> files[src]) @@ Without(files, src)

\* move_duplicate(src_file, duplicates_dir) when nothing fails
move_duplicate(src_file, dir, files) ==
    shutil_move(src_file, destination(src_file, dir, files), files)

\* ----------------------------------------------------------------- progress
\* print_progress_bar(current, total, width, eta): what the line shows. The
\* bar has done_width '#' characters; the percentage is fraction * 100, kept
\* as the fraction pct_num / pct_den.
print_progress_bar(current, total, width, eta) ==
    [ current |-> current,
      total |-> total,
      done_width |-> IF total > 0 THEN (current * width) \div total ELSE width,
      width |-> width,
      pct_num |-> IF total > 0 THEN current * 100 ELSE 100,
      pct_den |-> IF total > 0 THEN total ELSE 1,
      eta |-> eta ]

\* ------------------------------------------------------------- command line
\* a variant of the usage test that does not look at the flag
valid_args_NoFlagCheck(args) == Len(args) \in {2, 4}

\* line 135 negated: `folder` or `folder -m destination` (sys.argv[k] is
\* args[k + 1])
valid_args(args) == Len(args) \in {2, 4} /\ (Len(args) = 4 => args[3] = "-m")

\* a variant of the mode test that moves whatever move_path is
Truthy_Always(mp) == TRUE

\* `if move_path:`: neither None nor the empty string
Truthy(mp) == mp # NoMovePath /\ mp # ""

\* the command line that gives compare_images this move_path
ArgvOf(mp) ==
    IF mp = NoMovePath THEN <<"prog", "folder">>
    ELSE <<"prog", "folder", "-m", mp>>

\* ------------------------------------------------------------ initial state
Min(a, b) == IF a < b THEN a ELSE b

Reverse(s) == [k \in 1..Len(s) |-> s[Len(s) + 1 - k]]

\* find_images returns the files in the order the walk meets them
ImageLists ==
    UNION { {SubSeq(Universe, 1, n), Reverse(SubSeq(Universe, 1, n))} :
              n \in 0..Min(MaxFiles, Len(Universe)) }

Init ==
    /\ images \in ImageLists
    /\ content \in [Range(images) -> Contents]
    /\ workers \in 1..MaxWorkers
    /\ move_path \in {NoMovePath, "dest"}
    /\ \E before \in (IF move_path = NoMovePath THEN {{}} ELSE QuarantineBefore) :
          fs = [p \in Range(images) \cup before |-> p]
    /\ taken = 0
    /\ running = {}
    /\ futures = [k \in 1..Len(images) |-> PendingFuture]
    /\ completed = 0
    /\ hash_dict = <<>>
    /\ delivered = <<>>
    /\ hashFailed = {}
    /\ exact_groups = <<>>
    /\ pc = "hash"
    /\ gi = 1
    /\ mi = 1
    /\ original = None
    /\ originals = <<>>
    /\ moveLog = <<>>
    /\ abortCause = "none"
    /\ clock = 0
    /\ renders = <<>>
    /\ argv = ArgvOf(move_path)
    /\ exit_status = -1
    /\ usage_shown = FALSE
    /\ writers = <<>>

\* ------------------------------------------------------ the hashing phase
\* a variant of the generator that stops one result early
map_exhausted_Early(n, i) == i >= n - 1

\* executor.map's generator is exhausted once it has yielded all n results
map_exhausted(n, i) == i = n

\* a variant of the counter that only counts the results that have a hash
count_result_SuccessOnly(i, ph) == IF ph = None THEN i ELSE i + 1

\* enumerate(..., start=1): the counter i after one more result, whatever
\* the result holds
count_result(i, ph) == i + 1

\* a variant of the estimate that counts the item just finished as remaining
remaining_OffByOne(elapsed, i, n_images) ==
    [num |-> elapsed * (n_images - i + 1), den |-> i]

\* lines 102-104: avg_time = elapsed / i; remaining = avg_time * (n_images - i),
\* kept as the fraction num / den
remaining(elapsed, i, n_images) == [num |-> elapsed * (n_images - i), den |-> i]

\* a pool worker picks up the next submitted task
WorkerTake ==
    /\ pc = "hash"
    /\ taken < Len(images)
    /\ Cardinality(running) < workers
    /\ taken' = taken + 1
    /\ running' = running \cup {taken + 1}
    /\ UNCHANGED << images, content, workers, move_path, fs, futures, completed,
                    hash_dict, delivered, hashFailed, exact_groups, pc, gi, mi,
                    original, originals, moveLog,  abortCause >>
    /\ UNCHANGED << clock, renders, argv, exit_status, usage_shown, writers >>

\* a pool worker finishes safe_compute_hash on its task and resolves the future
WorkerFinish ==
    /\ pc = "hash"
    /\ \E k \in running :
          /\ futures' = [futures EXCEPT ![k] = safe_compute_hash(images[k], fs, content)]
          /\ running' = running \ {k}
          /\ hashFailed' = IF OpenAndHash(images[k], fs, content).raised
                           THEN hashFailed \cup {images[k]}
                           ELSE hashFailed
    /\ UNCHANGED << images, content, workers, move_path, fs, taken, completed,
                    hash_dict, delivered, exact_groups, pc, gi, mi, original,
                    originals, moveLog,  abortCause >>
    /\ UNCHANGED << clock, renders, argv, exit_status, usage_shown, writers >>

\* one iteration of the for loop: the generator gives the next result in
\* input order, which is stored; had the worker raised, result() would
\* re-raise the exception here and nothing in compare_images would catch it
Consume ==
    /\ pc = "hash"
    /\ ~map_exhausted(Len(images), completed)
    /\ completed < Len(images)
    /\ futures[completed + 1].state # "pending"
    /\ IF futures[completed + 1].state = "done"
       THEN /\ hash_dict' = DictSet(hash_dict, futures[completed + 1].path,
                                    futures[completed + 1].ph)
            /\ delivered' = Append(delivered, futures[completed + 1].path)
            /\ completed' = count_result(completed, futures[completed + 1].ph)
            /\ renders' = Append(renders,
                                 print_progress_bar(
                                     completed + 1, Len(images), Width,
                                     remaining(clock, completed + 1, Len(images))))
            /\ UNCHANGED << pc, abortCause, exit_status >>
       ELSE /\ pc' = "aborted"
            /\ abortCause' = "hash"
            /\ exit_status' = 1
            /\ UNCHANGED << hash_dict, delivered, completed, renders >>
    /\ UNCHANGED << images, content, workers, move_path, fs, taken, running,
                    futures, hashFailed, exact_groups, gi, mi, original,
                    originals, moveLog >>
    /\ UNCHANGED << clock, argv, usage_shown, writers >>

\* a variant that leaves the loop once every task has been handed to a worker
FinishHashing_NoWait ==
    /\ pc = "hash"
    /\ taken = Len(images)
    /\ pc' = "group"
    /\ UNCHANGED << images, content, workers, move_path, fs, taken, running,
                    futures, completed, hash_dict, delivered, hashFailed,
                    exact_groups, gi, mi, original, originals, moveLog,
                    abortCause >>
    /\ UNCHANGED << clock, renders, argv, exit_status, usage_shown, writers >>

\* the for loop ends and the with block shuts the pool down
FinishHashing ==
    /\ pc = "hash"
    /\ map_exhausted(Len(images), completed)
    /\ pc' = "group"
    /\ UNCHANGED << images, content, workers, move_path, fs, taken, running,
                    futures, completed, hash_dict, delivered, hashFailed,
                    exact_groups, gi, mi, original, originals, moveLog, 
                    abortCause >>
    /\ UNCHANGED << clock, renders, argv, exit_status, usage_shown, writers >>

\* ---------------------------------------------------- grouping and moving
\* exact_groups = group_exact_duplicates(hash_dict); then `if move_path:`
Group ==
    /\ pc = "group"
    /\ exact_groups' = group_exact_duplicates(hash_dict)
    /\ pc' = IF Truthy(move_path) THEN "move" ELSE "report"
    /\ UNCHANGED << images, content, workers, move_path, fs, taken, running,
                    futures, completed, hash_dict, delivered, hashFailed, gi, mi,
                    original, originals, moveLog,  abortCause >>
    /\ UNCHANGED << clock, renders, argv, exit_status, usage_shown, writers >>

\* original = max(group, key=getsize) for the next group
SelectOriginal ==
    /\ pc = "move"
    /\ gi <= Len(exact_groups)
    /\ original = None
    /\ Range(exact_groups[gi]) \subseteq DOMAIN fs
    /\ original' = select_original(exact_groups[gi], fs, content)
    /\ originals' = Append(originals, original')
    /\ mi' = 1
    /\ UNCHANGED << images, content, workers, move_path, fs, taken, running,
                    futures, completed, hash_dict, delivered, hashFailed,
                    exact_groups, pc, gi, moveLog,  abortCause >>
    /\ UNCHANGED << clock, renders, argv, exit_status, usage_shown, writers >>

\* os.path.getsize raises for some member (the file vanished after discovery,
\* or cannot be examined): nothing catches it
SelectOriginalRaises ==
    /\ pc = "move"
    /\ gi <= Len(exact_groups)
    /\ original = None
    /\ pc' = "aborted"
    /\ abortCause' = "getsize"
    /\ UNCHANGED << images, content, workers, move_path, fs, taken, running,
                    futures, completed, hash_dict, delivered, hashFailed,
                    exact_groups, gi, mi, original, originals, moveLog >>
    /\ exit_status' = 1
    /\ UNCHANGED << clock, renders, argv, usage_shown, writers >>

\* the inner loop moves on to the next member, or to the next group
Advance ==
    IF mi = Len(exact_groups[gi])
    THEN gi' = gi + 1 /\ mi' = 1 /\ original' = None
    ELSE gi' = gi /\ mi' = mi + 1 /\ original' = original

InnerLoop ==
    /\ pc = "move"
    /\ gi <= Len(exact_groups)
    /\ original # None
    /\ mi <= Len(exact_groups[gi])

\* `if img != original` is false: the original is left alone
SkipOriginal ==
    /\ InnerLoop
    /\ ~is_duplicate(exact_groups[gi][mi], original)
    /\ Advance
    /\ UNCHANGED << images, content, workers, move_path, fs, taken, running,
                    futures, completed, hash_dict, delivered, hashFailed,
                    exact_groups, pc, originals, moveLog,  abortCause >>
    /\ UNCHANGED << clock, renders, argv, exit_status, usage_shown, writers >>

\* move_duplicate(img, duplicates_dir) succeeds
MoveMember ==
    /\ InnerLoop
    /\ is_duplicate(exact_groups[gi][mi], original)
    /\ exact_groups[gi][mi] \in DOMAIN fs
    /\ fs' = move_duplicate(exact_groups[gi][mi], DuplicatesDir, fs)
    /\ moveLog' = Append(moveLog,
                         << exact_groups[gi][mi],
                            destination(exact_groups[gi][mi], DuplicatesDir, fs) >>)
    /\ Advance
    /\ UNCHANGED << images, content, workers, move_path, taken, running, futures,
                    completed, hash_dict, delivered, hashFailed, exact_groups, pc,
                    originals,  abortCause >>
    /\ UNCHANGED << clock, renders, argv, exit_status, usage_shown, writers >>

\* shutil.move raises (the source vanished, or the move is refused by the
\* system: permissions, disk full): nothing catches it
MoveMemberRaises ==
    /\ InnerLoop
    /\ is_duplicate(exact_groups[gi][mi], original)
    /\ pc' = "aborted"
    /\ abortCause' = "move"
    /\ UNCHANGED << images, content, workers, move_path, fs, taken, running,
                    futures, completed, hash_dict, delivered, hashFailed,
                    exact_groups, gi, mi, original, originals, moveLog >>
    /\ exit_status' = 1
    /\ UNCHANGED << clock, renders, argv, usage_shown, writers >>

\* the loop over the groups ends
EndMove ==
    /\ pc = "move"
    /\ gi > Len(exact_groups)
    /\ pc' = "report"
    /\ UNCHANGED << images, content, workers, move_path, fs, taken, running,
                    futures, completed, hash_dict, delivered, hashFailed,
                    exact_groups, gi, mi, original, originals, moveLog, 
                    abortCause >>
    /\ UNCHANGED << clock, renders, argv, exit_status, usage_shown, writers >>

\* the final report is printed, compare_images returns and the process
\* exits with status 0
Report ==
    /\ pc = "report"
    /\ pc' = "done"
    /\ UNCHANGED << images, content, workers, move_path, fs, taken, running,
                    futures, completed, hash_dict, delivered, hashFailed,
                    exact_groups, gi, mi, original, originals, moveLog, 
                    abortCause >>
    /\ exit_status' = 0
    /\ UNCHANGED << clock, renders, argv, usage_shown, writers >>

Next ==
    \/ WorkerTake
    \/ WorkerFinish
    \/ Consume
    \/ FinishHashing
    \/ Group
    \/ SelectOriginal
    \/ SelectOriginalRaises
    \/ SkipOriginal
    \/ MoveMember
    \/ MoveMemberRaises
    \/ EndMove
    \/ Report

Spec == Init /\ [][Next]_vars

\* ------------------------------------- the grouping function on its own
\* the fingerprints a mapping may hold: 2-bit hashes, some one bit apart
HashValues == { <<0, 1>>, <<1, 1>>, <<1, 0>> }

\* compare_images at line 109 with any complete mapping of the discovered paths
InitGroup ==
    /\ \E n \in 0..Min(MaxFiles, Len(Universe)) : images = SubSeq(Universe, 1, n)
    /\ content = [p \in Range(images) |-> "big"]
    /\ workers = 1
    /\ move_path = NoMovePath
    /\ fs = [p \in Range(images) |-> p]
    /\ taken = Len(images)
    /\ running = {}
    /\ \E v \in [1..Len(images) -> HashValues \cup {None}] :
          /\ hash_dict = [k \in 1..Len(images) |-> <<images[k], v[k]>>]
          /\ futures = [k \in 1..Len(images) |->
                          [state |-> "done", path |-> images[k], ph |-> v[k]]]
          /\ hashFailed = { images[k] : k \in { j \in 1..Len(images) : v[j] = None } }
    /\ completed = Len(images)
    /\ delivered = images
    /\ exact_groups = <<>>
    /\ pc = "group"
    /\ gi = 1
    /\ mi = 1
    /\ original = None
    /\ originals = <<>>
    /\ moveLog = <<>>
    /\ abortCause = "none"
    /\ clock = 0
    /\ renders = <<>>
    /\ argv = ArgvOf(move_path)
    /\ exit_status = -1
    /\ usage_shown = FALSE
    /\ writers = <<>>

NextGroup == Group \/ Report

SpecGroup == InitGroup /\ [][NextGroup]_vars

\* ================================================================= claims
\* the with block of lines 99-105 has been left without an exception
HashPhaseEnded ==
    \/ pc \in {"group", "move", "report", "done"}
    \/ pc = "aborted" /\ abortCause # "hash"

Occurrences(s, x) == Cardinality({ k \in 1..Len(s) : s[k] = x })

Fingerprint(d, p) == DictGet(d, p)

\* C1: the fingerprint phase delivers exactly one result per discovered path,
\* for every worker count: while it runs no result is delivered twice and
\* every delivered result belongs to an input path, and when it has ended the
\* consumer has received exactly N results, one for each of the N paths, and
\* the keys of the result map are exactly the N input paths.
C1_ExactlyOneResultPerPath ==
    /\ \A p \in Range(images) : Occurrences(delivered, p) <= 1
    /\ Range(delivered) \subseteq Range(images)
    /\ DictKeys(hash_dict) = Range(delivered)
    /\ Len(hash_dict) = Len(delivered)
    /\ HashPhaseEnded =>
          /\ Len(delivered) = Len(images)
          /\ \A p \in Range(images) : Occurrences(delivered, p) = 1
          /\ DictKeys(hash_dict) = Range(images)
          /\ Len(hash_dict) = Len(images)

\* C1 witness: several workers, at least three paths, the phase has ended
C1_Witness ==
    /\ pc = "group"
    /\ workers >= 2
    /\ Len(images) >= 3
    /\ Len(delivered) = Len(images)

\* C2: a failure to open, decode or hash one image never aborts the run, and
\* the fingerprint recorded for a path depends on that path's file alone: it
\* is None exactly when that path's own computation failed and the hash of
\* the file's content otherwise, whatever happened to the other paths.
C2_HashFailureIsolated ==
    /\ abortCause # "hash"
    /\ \A k \in 1..Len(hash_dict) :
          hash_dict[k][2] = IF hash_dict[k][1] \in hashFailed
                            THEN None
                            ELSE phash(content[hash_dict[k][1]])
    /\ \A p \in hashFailed : ~Decodes(content[p])

\* C2 witness: one image failed, another one was hashed, the phase has ended
C2_Witness ==
    /\ pc = "group"
    /\ hashFailed # {}
    /\ \E k \in 1..Len(hash_dict) : hash_dict[k][2] # None
    /\ \E k \in 1..Len(hash_dict) : hash_dict[k][2] = None

\* C3: no group returned by group_exact_duplicates holds a path whose
\* fingerprint is absent; two failed paths never form a group.
C3_NoFailedPathInGroup ==
    pc # "group" =>
        \A g \in 1..Len(exact_groups) :
            \A k \in 1..Len(exact_groups[g]) :
                /\ exact_groups[g][k] \in DictKeys(hash_dict)
                /\ Fingerprint(hash_dict, exact_groups[g][k]) # None

\* C3 witness: two paths failed, and a group was formed by two others
C3_Witness ==
    /\ pc # "group"
    /\ Len(exact_groups) >= 1
    /\ Cardinality({ k \in 1..Len(hash_dict) : hash_dict[k][2] = None }) >= 2

\* C4: every group has at least 2 paths; all paths of a group have equal
\* fingerprints; different groups have different fingerprints; every path is
\* in at most one group, once; every path whose present fingerprint is shared
\* by another path is in some group.
C4_GroupsPartitionByFingerprint ==
    pc # "group" =>
        /\ \A g \in 1..Len(exact_groups) :
              /\ Len(exact_groups[g]) >= 2
              /\ \A j, k \in 1..Len(exact_groups[g]) :
                    Fingerprint(hash_dict, exact_groups[g][j])
                        = Fingerprint(hash_dict, exact_groups[g][k])
        /\ \A g, h \in 1..Len(exact_groups) :
              g # h => Fingerprint(hash_dict, exact_groups[g][1])
                          # Fingerprint(hash_dict, exact_groups[h][1])
        /\ \A p \in DictKeys(hash_dict) :
              Cardinality({ <<g, k>> \in (1..Len(exact_groups)) \X (1..Len(hash_dict)) :
                              k <= Len(exact_groups[g]) /\ exact_groups[g][k] = p }) <= 1
        /\ \A p, q \in DictKeys(hash_dict) :
              (p # q /\ Fingerprint(hash_dict, p) # None
                     /\ Fingerprint(hash_dict, p) = Fingerprint(hash_dict, q))
                 => \E g \in 1..Len(exact_groups) : p \in Range(exact_groups[g])

\* C4 witness: the mapping gave two groups
C4_Witness ==
    /\ pc # "group"
    /\ Len(exact_groups) = 2

AsSets(groups) == { Range(groups[g]) : g \in 1..Len(groups) }

Permuted(d, perm) == [k \in 1..Len(d) |-> d[perm[k]]]

\* C5: grouping is order-independent: for every permutation of the entries of
\* the mapping, group_exact_duplicates gives the same set of groups, each
\* group taken as a set of paths, as it gave for the mapping itself.
C5_GroupingOrderIndependent ==
    pc # "group" =>
        \A perm \in Permutations(1..Len(hash_dict)) :
            AsSets(group_exact_duplicates(Permuted(hash_dict, perm)))
                = AsSets(exact_groups)

\* C5 witness: a group whose members are not neighbours in the mapping
C5_Witness ==
    /\ pc # "group"
    /\ Len(hash_dict) >= 3
    /\ \E g \in 1..Len(exact_groups) :
          /\ hash_dict[1][1] \in Range(exact_groups[g])
          /\ hash_dict[2][1] \notin Range(exact_groups[g])
          /\ hash_dict[3][1] \in Range(exact_groups[g])

\* the paths of the quarantine directory that hold the file first found at p
InQuarantine(p) == { q \in DOMAIN fs : q[1] = DuplicatesDir /\ fs[q] = p }

MoveMode == move_path # NoMovePath /\ move_path # ""

MovedSources == { moveLog[k][1] : k \in 1..Len(moveLog) }

\* the inner loop has been through every member of group k
GroupRelocated(k) == k < gi \/ pc \in {"report", "done"}

SizeOf(p) == FileSize(content[p])

IndexIn(group, p) == CHOOSE k \in 1..Len(group) : group[k] = p

\* C7: the original selected for a group is a member of the greatest byte
\* size, and among the members of that size it is the first in the group's
\* order.
C7_OriginalIsFirstLargest ==
    \A k \in 1..Len(originals) :
        /\ originals[k] \in Range(exact_groups[k])
        /\ \A j \in 1..Len(exact_groups[k]) :
              /\ SizeOf(exact_groups[k][j]) <= SizeOf(originals[k])
              /\ SizeOf(exact_groups[k][j]) = SizeOf(originals[k])
                    => IndexIn(exact_groups[k], originals[k]) <= j

\* C7 witness: a smaller member comes first, two members tie for the greatest
\* size, and the first of those two was selected
C7_Witness ==
    /\ Len(originals) >= 1
    /\ Len(exact_groups[1]) >= 3
    /\ SizeOf(exact_groups[1][1]) < SizeOf(exact_groups[1][2])
    /\ SizeOf(exact_groups[1][2]) = SizeOf(exact_groups[1][3])
    /\ originals[1] = exact_groups[1][2]

\* the i-th name move_duplicate tries for a source: name, base_1.ext, ...
Candidate(src, i) ==
    IF i = 0 THEN join(DuplicatesDir, basename(src))
    ELSE join(DuplicatesDir,
              splitext(basename(src))[1] \o <<"_">> \o IntToStr(i)
                  \o splitext(basename(src))[2])

\* every file moved so far is in the quarantine directory under a name of its
\* own, the first unused one of name, base_1.ext, base_2.ext, ...
MovedFilesDistinct ==
    \A k \in 1..Len(moveLog) :
        /\ moveLog[k][2] \in DOMAIN fs
        /\ fs[moveLog[k][2]] = moveLog[k][1]
        /\ \A j \in 1..Len(moveLog) : j # k => moveLog[j][2] # moveLog[k][2]
        /\ \E i \in 0..Cardinality(DOMAIN fs) :
              /\ moveLog[k][2] = Candidate(moveLog[k][1], i)
              /\ \A h \in 0..(i - 1) : Candidate(moveLog[k][1], h) \in DOMAIN fs

\* a step replaces no file of the quarantine directory by another one and
\* loses none: a name in use keeps its file, and the file is still stored
QuarantineKept ==
    \A q \in DOMAIN fs :
        q[1] = DuplicatesDir =>
            /\ q \in DOMAIN fs' => fs'[q] = fs[q]
            /\ \E r \in DOMAIN fs' : fs'[r] = fs[q]

\* C8: in a sequential run move_duplicate never overwrites a file of the
\* quarantine directory: no step replaces or removes a file that is there,
\* and every moved file ends under a name of its own (name, base_1.ext,
\* base_2.ext, ..., the first unused), so two sources with the same base name
\* give two distinct quarantine files, each with its own content.
C8_NeverOverwrites == [](MovedFilesDistinct) /\ [][QuarantineKept]_vars

\* C8 witness: two sources with the same base name were moved, the second
\* under a name with a suffix greater than 1
C8_Witness ==
    \E j, k \in 1..Len(moveLog) :
        /\ j < k
        /\ basename(moveLog[j][1]) = basename(moveLog[k][1])
        /\ moveLog[j][2] # moveLog[k][2]
        /\ \E i \in 2..4 : moveLog[k][2] = Candidate(moveLog[k][1], i)

\* C9: a failure moving one file does not abort the run. (The code has no
\* handler around shutil.move, so this is violated.)
C9_MoveFailureDoesNotAbort == ~(pc = "aborted" /\ abortCause = "move")

\* C10: a byte-size lookup failure during original selection does not abort
\* the run. (The code has no handler around os.path.getsize, so this is
\* violated.)
C10_SizeFailureDoesNotAbort == ~(pc = "aborted" /\ abortCause = "getsize")

\* ---------------------------------------- the hashing phase with a clock
\* time passes between two readings of time.time()
Tick ==
    /\ pc = "hash"
    /\ clock < MaxElapsed
    /\ clock' = clock + 1
    /\ UNCHANGED << images, content, workers, move_path, fs, taken, running,
                    futures, completed, hash_dict, delivered, hashFailed,
                    exact_groups, pc, gi, mi, original, originals, moveLog,
                    abortCause, renders, argv, exit_status, usage_shown, writers >>

\* lines 91-97 in report-only mode, for any folder of readable and
\* unreadable images
InitProgress ==
    /\ \E n \in 0..Min(MaxFiles, Len(Universe)) : images = SubSeq(Universe, 1, n)
    /\ content \in [Range(images) -> {"big", "bad"}]
    /\ workers \in 1..MaxWorkers
    /\ move_path = NoMovePath
    /\ fs = [p \in Range(images) |-> p]
    /\ taken = 0
    /\ running = {}
    /\ futures = [k \in 1..Len(images) |-> PendingFuture]
    /\ completed = 0
    /\ hash_dict = <<>>
    /\ delivered = <<>>
    /\ hashFailed = {}
    /\ exact_groups = <<>>
    /\ pc = "hash"
    /\ gi = 1
    /\ mi = 1
    /\ original = None
    /\ originals = <<>>
    /\ moveLog = <<>>
    /\ abortCause = "none"
    /\ clock = 0
    /\ renders = <<>>
    /\ argv = ArgvOf(move_path)
    /\ exit_status = -1
    /\ usage_shown = FALSE
    /\ writers = <<>>

NextProgress ==
    \/ WorkerTake
    \/ WorkerFinish
    \/ Consume
    \/ FinishHashing
    \/ Tick

SpecProgress == InitProgress /\ [][NextProgress]_vars

\* every discovered path has been delivered to the consumer exactly once
AllDeliveredOnce ==
    /\ Len(delivered) = Len(images)
    /\ \A p \in Range(images) : Occurrences(delivered, p) = 1
    /\ DictKeys(hash_dict) = Range(images)

\* C11: grouping never begins on a partial result set, and the groups do not
\* change afterwards: whenever the program is at line 109 all N results have
\* been received exactly once; exact_groups is assigned by that line only;
\* from then on the result map is not modified, and the relocation and report
\* phases work on the groups of the complete map.
C11_GroupingAfterAllResults ==
    /\ [](pc = "group" => AllDeliveredOnce)
    /\ [](pc \in {"move", "report", "done"} =>
            /\ AllDeliveredOnce
            /\ exact_groups = group_exact_duplicates(hash_dict))
    /\ [][ /\ pc # "group" => exact_groups' = exact_groups
           /\ pc # "hash" => hash_dict' = hash_dict ]_vars

\* C11 witness: the relocation phase is at work on groups made from the
\* results of at least three paths
C11_Witness ==
    /\ pc = "move"
    /\ Len(exact_groups) >= 1
    /\ original # None
    /\ Len(delivered) >= 3

\* C12: the progress counter is updated once per incoming result, success
\* or failure alike: a step leaves it unchanged or adds exactly 1, and it
\* adds 1 exactly when one more result is received; it never exceeds the
\* total; it equals the total when the phase has processed all N items.
C12_CompletedCountsEveryResult ==
    /\ [](/\ completed \in 0..Len(images)
          /\ completed = Len(delivered)
          /\ pc = "group" => completed = Len(images))
    /\ [][ /\ completed' = completed \/ completed' = completed + 1
           /\ Len(delivered') # Len(delivered) =>
                 /\ Len(delivered') = Len(delivered) + 1
                 /\ completed' = completed + 1 ]_vars

\* C12 witness: all of at least three results were counted, failures among them
C12_Witness ==
    /\ pc = "group"
    /\ completed >= 3
    /\ completed = Len(images)
    /\ \E k \in 1..Len(hash_dict) : hash_dict[k][2] = None
    /\ \E k \in 1..Len(hash_dict) : hash_dict[k][2] # None

\* C13: before the fingerprint phase returns, the progress display has been
\* rendered at least once with completed == total, a full bar at 100%, for
\* every N, N = 0 included. (For N = 0 the loop body never runs and nothing
\* is rendered, so this is violated.)
C13_FullBarRenderedBeforeReturn ==
    pc = "group" =>
        \E k \in 1..Len(renders) :
            /\ renders[k].current = renders[k].total
            /\ renders[k].done_width = renders[k].width
            /\ renders[k].pct_num = 100 * renders[k].pct_den

\* C14: at every render the ETA is (elapsed / completed) * (total -
\* completed): the render happens with completed >= 1, so no division by
\* zero; the ETA is never negative; it is 0 at the render where completed
\* equals total.
C14_EtaWellDefined ==
    /\ [](\A k \in 1..Len(renders) :
            /\ renders[k].current >= 1
            /\ renders[k].eta.den >= 1
            /\ renders[k].eta.num >= 0
            /\ renders[k].current = renders[k].total => renders[k].eta.num = 0)
    /\ [][ renders' # renders =>
             /\ Len(renders') = Len(renders) + 1
             /\ LET r == renders'[Len(renders')] IN
                   /\ r.current = completed'
                   /\ r.total = Len(images)
                   /\ r.eta.num * r.current
                         = clock * (r.total - r.current) * r.eta.den ]_vars

\* C14 witness: a render in the middle of the run with a positive ETA, and
\* the last render
C14_Witness ==
    /\ pc = "group"
    /\ \E k \in 1..Len(renders) : renders[k].eta.num > 0 /\ renders[k].current >= 2
    /\ \E k \in 1..Len(renders) : renders[k].current = renders[k].total

\* ------------------------------------------------------ the program entry
\* the words a command line is made of
ArgTokens == {"folder", "-m", "dest", ""}

RECURSIVE ArgLists(_)
ArgLists(n) ==
    IF n = 0 THEN { <<>> }
    ELSE ArgLists(n - 1)
         \cup { Append(a, t) : a \in { b \in ArgLists(n - 1) : Len(b) = n - 1 },
                                t \in ArgTokens }

\* find_images: the image files below the folder, in the order of the walk
find_images(files) == SelectSeq(Universe, LAMBDA p : p \in DOMAIN files)

\* the process starts: nothing has been read or computed yet
InitMain ==
    /\ \E args \in ArgLists(MaxArgs) : argv = <<"prog">> \o args
    /\ \E n \in 0..Min(MaxFiles, Len(Universe)) :
       \E before \in QuarantineBefore :
          /\ fs = [p \in Range(SubSeq(Universe, 1, n)) \cup before |-> p]
          /\ content \in [Range(SubSeq(Universe, 1, n)) -> {"big", "small"}]
    /\ images = <<>>
    /\ workers = 1
    /\ move_path = NoMovePath
    /\ taken = 0
    /\ running = {}
    /\ futures = <<>>
    /\ completed = 0
    /\ hash_dict = <<>>
    /\ delivered = <<>>
    /\ hashFailed = {}
    /\ exact_groups = <<>>
    /\ pc = "main"
    /\ gi = 1
    /\ mi = 1
    /\ original = None
    /\ originals = <<>>
    /\ moveLog = <<>>
    /\ abortCause = "none"
    /\ clock = 0
    /\ renders = <<>>
    /\ exit_status = -1
    /\ usage_shown = FALSE
    /\ writers = <<>>

\* lines 135-139: the usage text and sys.exit(1)
UsageError ==
    /\ pc = "main"
    /\ ~valid_args(argv)
    /\ usage_shown' = TRUE
    /\ exit_status' = 1
    /\ pc' = "exited"
    /\ UNCHANGED << images, content, workers, move_path, fs, taken, running,
                    futures, completed, hash_dict, delivered, hashFailed,
                    exact_groups, gi, mi, original, originals, moveLog,
                    abortCause, clock, renders, argv, writers >>

\* lines 141-146 and 91-97: the arguments are read, compare_images walks the
\* folder and submits one task per image
StartRun ==
    /\ pc = "main"
    /\ valid_args(argv)
    /\ move_path' = IF Len(argv) = 4 THEN argv[4] ELSE NoMovePath
    /\ images' = find_images([p \in { q \in DOMAIN fs : q[1] # DuplicatesDir } |-> fs[p]])
    /\ futures' = [k \in 1..Len(images') |-> PendingFuture]
    /\ pc' = "hash"
    /\ UNCHANGED << content, workers, fs, taken, running, completed, hash_dict,
                    delivered, hashFailed, exact_groups, gi, mi, original,
                    originals, moveLog, abortCause, clock, renders, argv,
                    exit_status, usage_shown, writers >>

NextMain == UsageError \/ StartRun \/ Next

SpecMain == InitMain /\ [][NextMain]_vars

\* the command line is neither `folder` nor `folder -m destination`
InvalidCommandLine ==
    ~(\/ Len(argv) = 2
      \/ Len(argv) = 4 /\ argv[3] = "-m")

\* nothing of compare_images has happened
NothingScanned ==
    /\ images = <<>>
    /\ taken = 0
    /\ running = {}
    /\ hash_dict = <<>>
    /\ renders = <<>>
    /\ exact_groups = <<>>
    /\ moveLog = <<>>

\* C15: an invalid command line prints the usage text and exits with status
\* 1 before any scanning: the program goes from its entry straight to the
\* exit, with no walk, no fingerprinting, no grouping and no move, and the
\* filesystem is left as it was.
C15_UsageErrorBeforeScanning ==
    /\ [](InvalidCommandLine =>
            /\ pc \in {"main", "exited"}
            /\ NothingScanned
            /\ pc = "exited" => (usage_shown /\ exit_status = 1))
    /\ [](pc = "exited" => InvalidCommandLine)
    /\ [][InvalidCommandLine => fs' = fs]_vars

\* C15 witness: the three-argument form with a wrong flag has exited, with
\* duplicates in the folder
C15_Witness ==
    /\ pc = "exited"
    /\ Len(argv) = 4
    /\ argv[3] # "-m"
    /\ Cardinality(DOMAIN fs) >= 3


\* ------------------------------------------- the per-file state machine
\* the group a path is a member of, 0 if it is in none
GroupOf(p) ==
    IF \E k \in 1..Len(exact_groups) : p \in Range(exact_groups[k])
    THEN CHOOSE k \in 1..Len(exact_groups) : p \in Range(exact_groups[k])
    ELSE 0

\* the move of p is the one that raised and ended the run
MoveRaisedOn(p) ==
    /\ pc = "aborted"
    /\ abortCause = "move"
    /\ gi <= Len(exact_groups)
    /\ mi <= Len(exact_groups[gi])
    /\ exact_groups[gi][mi] = p

\* where a discovered file stands in Discovered -> Grouped ->
\* {Kept | Queued} -> {Moved | MoveFailed}, read off the program's state
FileState(p) ==
    IF GroupOf(p) = 0 THEN "Discovered"
    ELSE IF GroupOf(p) > Len(originals) THEN "Grouped"
    ELSE IF originals[GroupOf(p)] = p THEN "Kept"
    ELSE IF p \in MovedSources THEN "Moved"
    ELSE IF MoveRaisedOn(p) THEN "MoveFailed"
    ELSE "Queued"

FileTransitions ==
    { <<"Discovered", "Grouped">>, <<"Grouped", "Kept">>, <<"Grouped", "Queued">>,
      <<"Queued", "Moved">>, <<"Queued", "MoveFailed">> }

\* a step takes every file along an arrow of the state machine or leaves it
\* where it is, so the terminal states are never left
FileStepInOrder ==
    \A p \in Range(images) :
        \/ FileState(p)' = FileState(p)
        \/ << FileState(p), FileState(p)' >> \in FileTransitions

RunEnded == pc \in {"done", "aborted"}

\* when the run has ended, no file is still waiting to be moved
NoFileLeftQueued ==
    (MoveMode /\ RunEnded) =>
        \A p \in Range(images) : FileState(p) # "Queued"

\* the part of C16 that the code keeps, in every run: files only move along
\* the arrows Discovered -> Grouped -> {Kept | Queued} -> {Moved | MoveFailed}
FileStatesInOrder == [][MoveMode => FileStepInOrder]_vars

\* C16: in move mode every grouped file follows Discovered -> Grouped ->
\* {Kept | Queued-for-move} -> {Moved | Move-Failed}, terminal states are
\* never left, and when the run has ended no file is left Queued-for-move:
\* each one was moved or its move failed. (A raising move ends the whole run,
\* see C9, so the members that come after it in the group are left queued:
\* this is violated.)
C16_PerFileStateMachine == FileStatesInOrder /\ []NoFileLeftQueued

\* ------------------------------------- the hashing phase, fairly scheduled
NextHash == WorkerTake \/ WorkerFinish \/ Consume \/ FinishHashing

\* the pool's workers keep picking up and finishing tasks, every computation
\* ends, and the main thread keeps iterating over executor.map
SpecHashFair ==
    /\ InitProgress
    /\ [][NextHash]_vars
    /\ WF_vars(WorkerTake)
    /\ WF_vars(WorkerFinish)
    /\ WF_vars(Consume)
    /\ WF_vars(FinishHashing)

\* C17: when every fingerprint computation finishes and the workers are
\* scheduled fairly, the fingerprint phase eventually completes, it completes
\* only after all N results were delivered, and a file whose computation
\* failed has its result delivered like any other.
C17_HashPhaseCompletes ==
    /\ <>(pc = "group")
    /\ [](pc = "group" =>
            /\ AllDeliveredOnce
            /\ hashFailed \subseteq Range(delivered))

\* C17 witness: the phase has completed on three files or more, one of which
\* failed and one of which did not
C17_Witness ==
    /\ pc = "group"
    /\ Len(images) >= 3
    /\ hashFailed # {}
    /\ hashFailed # Range(images)


\* ------------------------------- move_duplicate run by concurrent writers
\* each writer is one call of move_duplicate(src, duplicates_dir), between
\* two of its system calls: at the test of the while loop ("check"), at
\* shutil.move ("move"), or returned ("done")
InitWriters ==
    /\ \E srcs \in SUBSET Range(Universe) :
          /\ Cardinality(srcs) \in 2..MaxWriters
          /\ images = SelectSeq(Universe, LAMBDA p : p \in srcs)
    /\ content = [p \in Range(images) |-> "big"]
    /\ workers = 1
    /\ move_path = "dest"
    /\ \E before \in QuarantineBefore : fs = [p \in Range(images) \cup before |-> p]
    /\ writers = [w \in 1..Len(images) |->
                     [src |-> images[w],
                      dest |-> join(DuplicatesDir, basename(images[w])),
                      i |-> 1,
                      pc |-> "check"]]
    /\ taken = 0
    /\ running = {}
    /\ futures = <<>>
    /\ completed = 0
    /\ hash_dict = <<>>
    /\ delivered = <<>>
    /\ hashFailed = {}
    /\ exact_groups = <<>>
    /\ pc = "move"
    /\ gi = 1
    /\ mi = 1
    /\ original = None
    /\ originals = <<>>
    /\ moveLog = <<>>
    /\ abortCause = "none"
    /\ clock = 0
    /\ renders = <<>>
    /\ argv = ArgvOf(move_path)
    /\ exit_status = -1
    /\ usage_shown = FALSE

\* one evaluation of `while os.path.exists(dest)`: the name is in use and the
\* body builds the next candidate, or it is free and the loop ends
WriterCheck ==
    /\ \E w \in 1..Len(writers) :
          /\ writers[w].pc = "check"
          /\ writers' =
                [writers EXCEPT ![w] =
                    IF writers[w].dest \in DOMAIN fs
                    THEN [writers[w] EXCEPT
                             !.dest = join(DuplicatesDir,
                                           splitext(basename(writers[w].src))[1]
                                               \o <<"_">> \o IntToStr(writers[w].i)
                                               \o splitext(basename(writers[w].src))[2]),
                             !.i = writers[w].i + 1]
                    ELSE [writers[w] EXCEPT !.pc = "move"]]
    /\ UNCHANGED << images, content, workers, move_path, fs, taken, running,
                    futures, completed, hash_dict, delivered, hashFailed,
                    exact_groups, pc, gi, mi, original, originals, moveLog,
                    abortCause, clock, renders, argv, exit_status, usage_shown >>

\* shutil.move(src_file, dest), whatever has happened to dest since the test
WriterMove ==
    /\ \E w \in 1..Len(writers) :
          /\ writers[w].pc = "move"
          /\ writers[w].src \in DOMAIN fs
          /\ fs' = shutil_move(writers[w].src, writers[w].dest, fs)
          /\ moveLog' = Append(moveLog, << writers[w].src, writers[w].dest >>)
          /\ writers' = [writers EXCEPT ![w].pc = "done"]
    /\ UNCHANGED << images, content, workers, move_path, taken, running,
                    futures, completed, hash_dict, delivered, hashFailed,
                    exact_groups, pc, gi, mi, original, originals,
                    abortCause, clock, renders, argv, exit_status, usage_shown >>

NextWriters == WriterCheck \/ WriterMove

SpecWriters == InitWriters /\ [][NextWriters]_vars

\* C18: when writers run move_duplicate concurrently into the same quarantine
\* directory, every file a writer has moved is stored in the quarantine
\* directory under a name of its own, and no file that was in the directory
\* is replaced or lost. (Between a writer's existence test and its move
\* another writer can take the name, and shutil.move then replaces that
\* writer's file: this is violated.)
C18_ConcurrentMovesKeepEveryFile ==
    /\ \A w \in 1..Len(writers) :
          writers[w].pc = "done" => Cardinality(InQuarantine(writers[w].src)) = 1
    /\ \A q \in DOMAIN fs :
          q[1] = DuplicatesDir =>
              \A r \in DOMAIN fs : fs[r] = fs[q] => r = q


\* ------------------------------------------------ what a run may move
\* the file discovered at p is no longer where it was found
Displaced(p) == p \notin DOMAIN fs \/ fs[p] # p \/ p \in MovedSources

\* C19: a file is moved only if move mode is active and the file is a
\* non-original member of a duplicate group whose original has been selected;
\* so in report-only mode the filesystem stays as it was found, and in move
\* mode every file in no group (unique or failed fingerprint) and every kept
\* original is at its original path.
C19_OnlyDuplicatesAreMoved ==
    /\ ~MoveMode => (fs = [p \in Range(images) |-> p] /\ moveLog = <<>>)
    /\ \A p \in Range(images) :
          Displaced(p) =>
              /\ MoveMode
              /\ FileState(p) = "Moved"
              /\ p \notin hashFailed
    /\ \A p \in Range(images) :
          FileState(p) \in {"Discovered", "Kept"} =>
              (p \in DOMAIN fs /\ fs[p] = p)

\* C19 witness: a completed run in move mode that moved a duplicate and left
\* in place a kept original, a file with a unique fingerprint and a file whose
\* fingerprint failed
C19_Witness ==
    /\ MoveMode
    /\ pc = "done"
    /\ Len(moveLog) >= 1
    /\ \E p \in Range(images) : FileState(p) = "Kept" /\ fs[p] = p
    /\ \E p \in Range(images) \ hashFailed : GroupOf(p) = 0 /\ fs[p] = p
    /\ \E p \in hashFailed : GroupOf(p) = 0 /\ fs[p] = p


\* ------------------------------ a destination inside the scanned folder
\* the files of the quarantine directory, in directory-listing order
QuarantineListing == << join(DuplicatesDir, NameX), join(DuplicatesDir, NameX1) >>

\* the walk of a scanned folder that holds the destination root (as in
\* `prog folder -m folder` run a second time): os.walk descends into the
\* quarantine directory as into any other, before or after the rest
NestedImageLists ==
    UNION { UNION { { SubSeq(Universe, 1, k) \o SelectSeq(QuarantineListing, LAMBDA q : q \in before),
                      SelectSeq(QuarantineListing, LAMBDA q : q \in before) \o SubSeq(Universe, 1, k) } :
                    k \in 0..Min(MaxFiles - Cardinality(before), Len(Universe)) } :
            before \in QuarantineBefore }

InitNested ==
    /\ images \in NestedImageLists
    /\ content \in [Range(images) -> {"big", "small"}]
    /\ workers = 1
    /\ move_path = "dest"
    /\ fs = [p \in Range(images) |-> p]
    /\ taken = 0
    /\ running = {}
    /\ futures = [k \in 1..Len(images) |-> PendingFuture]
    /\ completed = 0
    /\ hash_dict = <<>>
    /\ delivered = <<>>
    /\ hashFailed = {}
    /\ exact_groups = <<>>
    /\ pc = "hash"
    /\ gi = 1
    /\ mi = 1
    /\ original = None
    /\ originals = <<>>
    /\ moveLog = <<>>
    /\ abortCause = "none"
    /\ clock = 0
    /\ renders = <<>>
    /\ argv = ArgvOf(move_path)
    /\ exit_status = -1
    /\ usage_shown = FALSE
    /\ writers = <<>>

SpecNested == InitNested /\ [][Next]_vars

\* ------------------------------------------------------- conservation
Quarantine(files) == { q \in DOMAIN files : q[1] = DuplicatesDir }

Locations(f) == { q \in DOMAIN fs : fs[q] = f }

\* every discovered file is stored at one place: where it was found, or one
\* path of the quarantine directory
EachFileAtOnePlace ==
    \A p \in Range(images) :
        /\ Cardinality(Locations(p)) = 1
        /\ \A q \in Locations(p) : q = p \/ q[1] = DuplicatesDir

\* a step adds one file to the quarantine directory per move it performs
QuarantineGrowsByMoves ==
    Cardinality(Quarantine(fs')) =
        Cardinality(Quarantine(fs)) + (Len(moveLog') - Len(moveLog))

\* the files that were in the quarantine directory before the run are there
\* under the name they had
QuarantineNamesKept ==
    \A q \in UNION QuarantineBefore :
        Locations(q) # {} => Locations(q) = {q}

\* C20: relocation conserves files: at every point of a sequential move
\* phase each discovered file exists at exactly one location (its original
\* path or one path of the quarantine directory), the number of files in the
\* quarantine directory grows by exactly one per successful move, and the
\* files that were in the quarantine directory before the run keep their
\* names and content. (When the destination lies inside the scanned folder
\* the files of the quarantine directory are discovered, grouped and moved
\* like any other, that is renamed within the directory: this is violated.)
C20_RelocationConservesFiles ==
    /\ [](EachFileAtOnePlace /\ QuarantineNamesKept)
    /\ [][QuarantineGrowsByMoves /\ QuarantineKept]_vars

====
